---------------------------- MODULE Spec2Model ----------------------------
(***************************************************************************)
(* Model of Lab_Sklearn_Magic_Student.ipynb: a churn data set is loaded,   *)
(* four cross-validation folds are built with KFold, and three grid        *)
(* searches (logistic regression; scaler + LR; polynomial features +       *)
(* scaler + LR) are fitted with GridSearchCV(scoring="roc_auc", cv=kfolds).*)
(*                                                                         *)
(* The notebook itself is a sequence of library calls.  What each call     *)
(* does is the behaviour of the scikit-learn 0.18 classes the notebook     *)
(* imports (sklearn.cross_validation.KFold, sklearn.grid_search.           *)
(* GridSearchCV, sklearn.pipeline.Pipeline, sklearn.preprocessing,         *)
(* sklearn.metrics.roc_auc_score), with the arguments and the defaults     *)
(* the notebook's calls select (shuffle=False, iid=True, refit=True,       *)
(* error_score='raise', n_jobs=1).  Each definition names the notebook     *)
(* line whose call it models.                                              *)
(*                                                                         *)
(* Abstractions.  Row indices are 0-based as in the code.  Feature values  *)
(* are not modelled: a fitted stage records the set of rows its fit was    *)
(* given and the number of feature columns it saw and produced.  The       *)
(* numerical solver of LogisticRegression is outside the model: the        *)
(* decision value the fitted classifier gives a validation row is any      *)
(* value of the set `levels`.  Scores are exact rationals <<num, den>>     *)
(* where the code has floating point numbers.  The hyper-parameter C is    *)
(* represented by its exponent i (C = 10**i).                              *)
(***************************************************************************)
EXTENDS Integers, Sequences, FiniteSets, TLC

VARIABLES
    n,            \* X.shape[0]: the number of rows of the data set
    Y,            \* the label column churndep, a function 0..n-1 -> {0,1}
    n_folds,      \* the n_folds argument of KFold (4 in the notebook)
    levels,       \* decision values the fitted classifier may output
    searches,     \* the grid searches to run: [name, steps, param_grid]
    pc,           \* position in the notebook
    kfolds,       \* the KFold object (built: whether it exists)
    yielded,      \* splits produced so far by iterating kfolds directly
    s,            \* index of the current grid search
    configs,      \* list(ParameterGrid(param_grid)) of the current search
    ci,           \* index of the candidate being evaluated (1-based)
    fi,           \* index of the fold being evaluated (0-based)
    cur,          \* the estimator clone of the latest evaluation
    out,          \* results of the evaluations of the current search
    grid_scores,  \* grid_scores_ of each finished search
    best,         \* best_params_/best_score_/best_estimator_ of each search
    refSplits,    \* history: the splits used by the first candidate
    results,      \* the array plotted by the last cell
    error         \* the exception that ended the run (type "None": none)

vars == <<n, Y, n_folds, levels, searches, pc, kfolds, yielded, s, configs,
          ci, fi, cur, out, grid_scores, best, refSplits, results, error>>

NoKFold == [built |-> FALSE, n |-> 0, n_folds |-> 0]
NoError == [type |-> "None", at |-> "None"]

-----------------------------------------------------------------------------
(* Bounds of the model *)

\* largest data set of the notebook run
MaxN == 8
\* largest data set (and, plus one, fold count) of the partitioner runs
MaxFoldN == 6
\* largest data set of the scoring runs
MaxScoreN == 5
\* most folds of the scoring runs
MaxScoreFolds == 2
\* most candidate values of C in the grids of the scoring runs
MaxGridC == 2
\* largest decision value in the scoring runs
MaxLevel == 1

(* Program constants *)

\* KFold(X.shape[0], n_folds=4)
NFolds == 4
\* range(-3, 3): the exponents of the candidate values of C
CExpLo == -3
CExpHi == 2
\* 12 columns, 5 dropped, churndep is the label: 6 feature columns
NumColumns == 12
NumDropped == 5
NumFeatures == NumColumns - NumDropped - 1

-----------------------------------------------------------------------------
(* Small helpers *)

Range(f) == {f[x] : x \in DOMAIN f}

RECURSIVE SumSeq(_)
SumSeq(q) == IF q = <<>> THEN 0 ELSE Head(q) + SumSeq(Tail(q))

RECURSIVE ProdSeq(_)
ProdSeq(q) == IF q = <<>> THEN 1 ELSE Head(q) * ProdSeq(Tail(q))

RECURSIVE Gcd(_, _)
Gcd(a, b) == IF b = 0 THEN a ELSE Gcd(b, a % b)

-----------------------------------------------------------------------------
(* sklearn.cross_validation.KFold(n, n_folds), shuffle=False *)

\* a fold count silently forced into 2..n instead of being rejected
ClampedFolds(nn, k) ==
    [ok |-> TRUE, n_folds |-> IF k > nn THEN nn ELSE IF k < 2 THEN 2 ELSE k]

\* _BaseKFold.__init__: ValueError when n_folds <= 1 or n_folds > n;
\* otherwise the object keeps the argument as it is
CheckFolds(nn, k) ==
    IF k <= 1 \/ k > nn THEN [ok |-> FALSE, n_folds |-> k]
                        ELSE [ok |-> TRUE, n_folds |-> k]

\* fold_sizes = (n // n_folds) * ones; fold_sizes[:n % n_folds] += 1
FoldSizeTruncated(nn, k, i) == nn \div k
FoldSize(nn, k, i) == (nn \div k) + (IF i < nn % k THEN 1 ELSE 0)

\* current = 0; for fold_size in fold_sizes: start, stop = current, ...
RECURSIVE FoldStart(_, _, _)
FoldStart(nn, k, i) ==
    IF i = 0 THEN 0 ELSE FoldStart(nn, k, i - 1) + FoldSize(nn, k, i - 1)

\* test_index = idxs[start:stop]
TestIndices(nn, k, i) ==
    FoldStart(nn, k, i) .. (FoldStart(nn, k, i) + FoldSize(nn, k, i) - 1)

\* train_index = ind[np.logical_not(test_mask)]
TrainIndices(nn, k, i) == (0 .. nn - 1) \ TestIndices(nn, k, i)

\* the i-th (train, test) pair produced by iterating the KFold object kf
Split(kf, i) == [train |-> TrainIndices(kf.n, kf.n_folds, i),
                 test  |-> TestIndices(kf.n, kf.n_folds, i)]

-----------------------------------------------------------------------------
(* The grids and the estimators of the notebook *)

\* [10**i for i in range(-3, 3)], by exponent
CValues == [i \in 1 .. (CExpHi - CExpLo + 1) |-> CExpLo + i - 1]
Penalties == <<"l1", "l2">>

\* param_grid_lr = {'C': [...], 'penalty': ['l1','l2']}
param_grid_lr ==
    << [name |-> "C", values |-> CValues],
       [name |-> "penalty", values |-> Penalties] >>

\* parameters_scaler = dict(lr__C = [...], lr__penalty = ['l1','l2'])
parameters_scaler ==
    << [name |-> "lr__C", values |-> CValues],
       [name |-> "lr__penalty", values |-> Penalties] >>

\* parameters_poly = dict(polyfeat__degree = [1, 2], ...)
parameters_poly ==
    << [name |-> "polyfeat__degree", values |-> <<1, 2>>],
       [name |-> "polyfeat__interaction_only", values |-> <<TRUE, FALSE>>],
       [name |-> "lr__C", values |-> CValues],
       [name |-> "lr__penalty", values |-> Penalties] >>

\* the estimator of the first search: LogisticRegression() on its own
steps_lr == << [name |-> "lr", kind |-> "LogisticRegression"] >>

\* steps = [('scaler', StandardScaler()), ('lr', LogisticRegression())]
steps == << [name |-> "scaler", kind |-> "StandardScaler"],
            [name |-> "lr", kind |-> "LogisticRegression"] >>

\* steps_poly = [('polyfeat', ...), ('scaler', ...), ('lr', ...)]
steps_poly == << [name |-> "polyfeat", kind |-> "PolynomialFeatures"],
                 [name |-> "scaler", kind |-> "StandardScaler"],
                 [name |-> "lr", kind |-> "LogisticRegression"] >>

\* the three GridSearchCV objects, in cell order, with the labels of the plot
lr_grid_search ==
    [name |-> "LR", pipeline |-> FALSE, steps |-> steps_lr,
     param_grid |-> param_grid_lr]
lr_grid_search_scaler ==
    [name |-> "Scaler-LR", pipeline |-> TRUE, steps |-> steps,
     param_grid |-> parameters_scaler]
lr_grid_search_poly ==
    [name |-> "Poly-Scaler-LR", pipeline |-> TRUE, steps |-> steps_poly,
     param_grid |-> parameters_poly]

\* cv=kfolds: every search is given the one KFold object of cell 2
FreshFolds(si) ==
    IF si = 1 THEN kfolds ELSE [kfolds EXCEPT !.n_folds = kfolds.n_folds - 1]
SearchCV(si) == kfolds

-----------------------------------------------------------------------------
(* sklearn.grid_search.ParameterGrid and _check_param_grid *)

\* the position of a parameter name in Python's string order
KeyRank(name) ==
    CASE name = "C" -> 1
      [] name = "lr__C" -> 2
      [] name = "lr__penalty" -> 3
      [] name = "penalty" -> 4
      [] name = "polyfeat__degree" -> 5
      [] name = "polyfeat__interaction_only" -> 6

\* items = sorted(p.items())
RECURSIVE InsertItem(_, _)
InsertItem(item, sorted) ==
    IF sorted = <<>> THEN <<item>>
    ELSE IF KeyRank(item.name) < KeyRank(Head(sorted).name)
         THEN <<item>> \o sorted
         ELSE <<Head(sorted)>> \o InsertItem(item, Tail(sorted))

RECURSIVE SortedItems(_)
SortedItems(grid) ==
    IF grid = <<>> THEN <<>>
    ELSE InsertItem(Head(grid), SortedItems(Tail(grid)))

\* itertools.product(*values): the last key varies fastest
RECURSIVE Product(_)
Product(items) ==
    IF items = <<>> THEN << <<>> >>
    ELSE LET rest == Product(Tail(items))
             k    == Head(items).name
             vs   == Head(items).values
         IN  [j \in 1 .. (Len(vs) * Len(rest)) |->
                (k :> vs[((j - 1) \div Len(rest)) + 1])
                   @@ rest[((j - 1) % Len(rest)) + 1]]

\* a grid that pairs the candidate lists instead of crossing them
ZippedGrid(grid) ==
    LET items == SortedItems(grid)
        len   == IF items = <<>> THEN 1 ELSE Len(items[1].values)
    IN  [j \in 1 .. len |->
           [k \in {items[i].name : i \in 1 .. Len(items)} |->
              LET it == CHOOSE x \in Range(items) : x.name = k
              IN  it.values[((j - 1) % Len(it.values)) + 1]]]

\* ParameterGrid.__iter__: "if not items: yield {}", else the product
ParameterGrid(grid) ==
    LET items == SortedItems(grid)
    IN  IF items = <<>> THEN << <<>> >> ELSE Product(items)

\* a check that also rejects a grid with no hyper-parameter at all
GridInvalidOrEmpty(grid) ==
    grid = <<>> \/ \E i \in 1 .. Len(grid) : Len(grid[i].values) = 0

\* _check_param_grid: ValueError when a candidate list is empty
GridInvalid(grid) == \E i \in 1 .. Len(grid) : Len(grid[i].values) = 0

\* the value a candidate gives a stage's parameter, or the default value
ParamKey(pipeline, stage, param) ==
    IF ~pipeline THEN param
    ELSE CASE stage = "lr" /\ param = "C" -> "lr__C"
           [] stage = "lr" /\ param = "penalty" -> "lr__penalty"
           [] stage = "polyfeat" /\ param = "degree" -> "polyfeat__degree"
           [] stage = "polyfeat" /\ param = "interaction_only" ->
                  "polyfeat__interaction_only"
           [] OTHER -> "unset"

ParamOr(params, key, default) ==
    IF key \in DOMAIN params THEN params[key] ELSE default

-----------------------------------------------------------------------------
(* sklearn.preprocessing and sklearn.pipeline.Pipeline *)

RECURSIVE Binomial(_, _)
Binomial(a, b) ==
    IF b = 0 THEN 1
    ELSE IF a < b THEN 0
    ELSE Binomial(a - 1, b - 1) + Binomial(a - 1, b)

\* PolynomialFeatures.fit: the number of output columns (include_bias=True)
RECURSIVE PolyOutputs(_, _, _)
PolyOutputs(nf, degree, interaction_only) ==
    IF degree = 0 THEN 1
    ELSE PolyOutputs(nf, degree - 1, interaction_only)
         + (IF interaction_only THEN Binomial(nf, degree)
                                ELSE Binomial(nf + degree - 1, degree))

\* the columns a stage's transform produces from n_in columns
StageOutputs(search, stage, params, n_in) ==
    IF stage.kind = "PolynomialFeatures"
      THEN PolyOutputs(n_in,
             ParamOr(params, ParamKey(search.pipeline, stage.name, "degree"), 2),
             ParamOr(params, ParamKey(search.pipeline, stage.name,
                                      "interaction_only"), FALSE))
      ELSE n_in

\* a pipeline that fits its transformers in reverse order
ReversedStage(stages, k) ==
    IF k = Len(stages) THEN stages[k] ELSE stages[Len(stages) - k]

\* Pipeline._pre_transform: "for name, transform in self.steps[:-1]",
\* then self.steps[-1][-1].fit: the k-th stage fitted is steps[k]
StageAt(stages, k) == stages[k]

\* fitting on every row instead of the training rows of the fold
AllRows(split) == split.train \cup split.test

\* _fit_and_score: X_train, y_train = _safe_split(estimator, X, y, train)
FitRows(split) == split.train

\* transform(X_test) of a fitted stage reads its fitted state only
Transformed(st, rows) == st

\* the fitted state of stage k of an estimator clone after fit
FittedStage(stage, rows, n_in, n_out, order) ==
    [name |-> stage.name, kind |-> stage.kind, seen |-> rows,
     n_in |-> n_in, n_out |-> n_out, order |-> order]

\* liblinear needs samples of at least 2 classes: ValueError otherwise
SingleClass(rows) == \A a, b \in rows : Y[a] = Y[b]

-----------------------------------------------------------------------------
(* sklearn.metrics.roc_auc_score and the aggregation of GridSearchCV *)

Rat(a, b) == LET g == Gcd(a, b) IN [num |-> a \div g, den |-> b \div g]
RAdd(x, y) == Rat(x.num * y.den + y.num * x.den, x.den * y.den)
RScale(x, k) == Rat(x.num * k, x.den)
RDiv(x, k) == Rat(x.num, x.den * k)
RLess(x, y) == x.num * y.den < y.num * x.den

RECURSIVE Descending(_)
Descending(S) ==
    IF S = {} THEN <<>>
    ELSE LET m == CHOOSE x \in S : \A y \in S : y <= x
         IN  <<m>> \o Descending(S \ {m})

\* twice the area under the ROC curve times |pos| * |neg|, by the
\* trapezoidal rule over the thresholds in descending order
RECURSIVE Trapezoids(_, _, _, _, _)
Trapezoids(thr, pos, neg, d, j) ==
    IF j > Len(thr) THEN 0
    ELSE LET tp(t) == Cardinality({r \in pos : d[r] >= t})
             fp(t) == Cardinality({r \in neg : d[r] >= t})
             tp0   == IF j = 1 THEN 0 ELSE tp(thr[j - 1])
             fp0   == IF j = 1 THEN 0 ELSE fp(thr[j - 1])
         IN  (fp(thr[j]) - fp0) * (tp(thr[j]) + tp0)
             + Trapezoids(thr, pos, neg, d, j + 1)

\* roc_auc_score(y_test, decision_function(X_test))
RocAuc(test, d) ==
    LET pos == {r \in test : Y[r] = 1}
        neg == {r \in test : Y[r] = 0}
        thr == Descending({d[r] : r \in test})
    IN  Rat(Trapezoids(thr, pos, neg, d, 1),
            2 * Cardinality(pos) * Cardinality(neg))

RECURSIVE RSum(_)
RSum(q) == IF q = <<>> THEN Rat(0, 1) ELSE RAdd(Head(q), RSum(Tail(q)))

\* iid=False: the plain mean of the fold scores
PlainMean(folds) ==
    RDiv(RSum([i \in 1 .. Len(folds) |-> folds[i].score]), Len(folds))

\* iid=True (the default): "this_score *= this_n_test_samples ...
\* score /= float(n_test_samples)"
MeanScore(folds) ==
    RDiv(RSum([i \in 1 .. Len(folds) |->
                 RScale(folds[i].score, folds[i].n_test)]),
         SumSeq([i \in 1 .. Len(folds) |-> folds[i].n_test]))

\* grid_scores_: one entry per candidate, from its n_folds entries of out
GridScores(outs, cfgs, k) ==
    [c \in 1 .. Len(cfgs) |->
       LET folds == SubSeq(outs, (c - 1) * k + 1, c * k)
       IN  [parameters |-> cfgs[c],
            mean_validation_score |-> MeanScore(folds),
            cv_validation_scores |->
                [i \in 1 .. k |-> folds[i].score]]]

\* the last of the candidates with the highest mean score
RECURSIVE LastBest(_)
LastBest(scores) ==
    IF Len(scores) = 1 THEN scores[1]
    ELSE LET b == LastBest(Tail(scores))
         IN  IF RLess(b.mean_validation_score,
                      Head(scores).mean_validation_score)
               THEN Head(scores) ELSE b

\* sorted(grid_scores, key=lambda x: x.mean_validation_score,
\*        reverse=True): a stable sort, equal keys keep their order
RECURSIVE InsertDesc(_, _)
InsertDesc(e, sorted) ==
    IF sorted = <<>> THEN <<e>>
    ELSE IF RLess(Head(sorted).mean_validation_score,
                  e.mean_validation_score)
         THEN <<e>> \o sorted
         ELSE <<Head(sorted)>> \o InsertDesc(e, Tail(sorted))

RECURSIVE SortedDesc(_)
SortedDesc(scores) ==
    IF scores = <<>> THEN <<>>
    ELSE InsertDesc(scores[Len(scores)],
                    SortedDesc(SubSeq(scores, 1, Len(scores) - 1)))

\* best = sorted(...)[0]
BestOf(scores) == SortedDesc(scores)[1]

\* error_score=0: a failed fit is scored 0 and the search goes on
error_score_zero == "zero"

\* error_score='raise' (the default): a failed fit ends the search
error_score == "raise"

-----------------------------------------------------------------------------
(* Cell 2: kfolds = KFold(X.shape[0], n_folds=4) *)

BuildKFold ==
    /\ pc = "kfold"
    /\ LET chk == CheckFolds(n, n_folds)
       IN  IF ~chk.ok
             THEN /\ error' = [type |-> "InvalidConfiguration", at |-> "KFold"]
                  /\ pc' = "error"
                  /\ kfolds' = kfolds
             ELSE /\ kfolds' = [built |-> TRUE, n |-> n,
                               n_folds |-> chk.n_folds]
                  /\ pc' = "construct"
                  /\ error' = error
    /\ UNCHANGED <<n, Y, n_folds, levels, searches, yielded, s, configs, ci,
                   fi, cur, out, grid_scores, best, refSplits, results>>

\* for train, test in kfolds: one step of _PartitionIterator.__iter__
NextSplit ==
    /\ kfolds.built
    /\ Len(yielded) < kfolds.n_folds
    /\ yielded' = Append(yielded, Split(kfolds, Len(yielded)))
    /\ UNCHANGED <<n, Y, n_folds, levels, searches, pc, kfolds, s, configs,
                   ci, fi, cur, out, grid_scores, best, refSplits, results,
                   error>>

\* iterating the object again starts a fresh iterator
Restart ==
    /\ kfolds.built
    /\ Len(yielded) = kfolds.n_folds
    /\ yielded' = <<>>
    /\ UNCHANGED <<n, Y, n_folds, levels, searches, pc, kfolds, s, configs,
                   ci, fi, cur, out, grid_scores, best, refSplits, results,
                   error>>

-----------------------------------------------------------------------------
(* GridSearchCV(estimator, param_grid=..., scoring="roc_auc", cv=kfolds)   *)
(* and its fit(X, Y)                                                       *)

NoEstimator ==
    [active |-> FALSE, scored |-> FALSE, raised |-> FALSE, search |-> 0,
     cand |-> 0, fold |-> 0, params |-> <<>>, fitted |-> <<>>,
     split |-> [train |-> {}, test |-> {}], n_feat |-> 0]

\* GridSearchCV.__init__ checks the grid; fit() lists the candidates
GridSearchConstruct ==
    /\ pc = "construct"
    /\ s <= Len(searches)
    /\ IF GridInvalid(searches[s].param_grid)
         THEN /\ error' = [type |-> "InvalidConfiguration",
                           at |-> "GridSearchCV"]
              /\ pc' = "error"
              /\ UNCHANGED <<configs, ci, fi, out, cur>>
         ELSE /\ configs' = ParameterGrid(searches[s].param_grid)
              /\ ci' = 1
              /\ fi' = 0
              /\ out' = <<>>
              /\ cur' = NoEstimator
              /\ pc' = "fit"
              /\ error' = error
    /\ UNCHANGED <<n, Y, n_folds, levels, searches, kfolds, yielded, s,
                   grid_scores, best, refSplits, results>>

\* _fit_and_score: clone(base_estimator), set_params(**parameters) and
\* the _safe_split of the next (parameters, fold) pair of
\* "for parameters in parameter_iterable for train, test in cv"
StartEval ==
    /\ pc = "fit"
    /\ ~cur.active \/ cur.scored
    /\ LET split == Split(SearchCV(s), fi)
       IN  /\ cur' = [active |-> TRUE, scored |-> FALSE, raised |-> FALSE,
                      search |-> s, cand |-> ci, fold |-> fi,
                      params |-> configs[ci], fitted |-> <<>>,
                      split |-> split, n_feat |-> NumFeatures]
           /\ refSplits' = IF s = 1 /\ ci = 1 THEN Append(refSplits, split)
                                              ELSE refSplits
    /\ UNCHANGED <<n, Y, n_folds, levels, searches, pc, kfolds, yielded, s,
                   configs, ci, fi, out, grid_scores, best, results, error>>

\* the loop of GridSearchCV.fit moves to the next fold, the next
\* candidate, or to the aggregation
Advance ==
    IF fi + 1 < SearchCV(s).n_folds
      THEN /\ fi' = fi + 1
           /\ UNCHANGED <<ci, pc>>
      ELSE IF ci < Len(configs)
             THEN /\ ci' = ci + 1
                  /\ fi' = 0
                  /\ UNCHANGED pc
             ELSE /\ pc' = "select"
                  /\ UNCHANGED <<ci, fi>>

\* estimator.fit(X_train, y_train): one stage of the pipeline is fitted
\* (fit_transform for a transformer, fit for the final classifier)
FitStage ==
    /\ pc = "fit"
    /\ cur.active
    /\ ~cur.scored
    /\ Len(cur.fitted) < Len(searches[s].steps)
    /\ LET k     == Len(cur.fitted) + 1
           stage == StageAt(searches[s].steps, k)
           rows  == FitRows(cur.split)
           n_out == StageOutputs(searches[s], stage, cur.params, cur.n_feat)
       IN  \E raises \in BOOLEAN :
             IF raises \/ (stage.kind = "LogisticRegression"
                             /\ SingleClass(rows))
               THEN IF error_score = "raise"
                      THEN /\ error' = [type |-> "FitFailure",
                                        at |-> stage.name]
                           /\ pc' = "error"
                           /\ cur' = [cur EXCEPT !.raised = TRUE]
                           /\ UNCHANGED <<out, ci, fi>>
                      ELSE /\ out' = Append(out,
                                       [score |-> Rat(0, 1),
                                        n_test |->
                                          Cardinality(cur.split.test),
                                        ci |-> ci])
                           /\ cur' = [cur EXCEPT !.raised = TRUE,
                                                 !.scored = TRUE]
                           /\ Advance
                           /\ error' = error
               ELSE /\ cur' = [cur EXCEPT
                                 !.fitted = Append(@,
                                    FittedStage(stage, rows, cur.n_feat,
                                                n_out, k)),
                                 !.n_feat = n_out]
                    /\ UNCHANGED <<out, ci, fi, pc, error>>
    /\ UNCHANGED <<n, Y, n_folds, levels, searches, kfolds, yielded, s,
                   configs, grid_scores, best, refSplits, results>>

\* test_score = scorer(estimator, X_test, y_test): the validation rows
\* go through every fitted stage, the classifier ranks them, and
\* [test_score, n_test_samples, parameters] is appended to out
ScoreFold ==
    /\ pc = "fit"
    /\ cur.active
    /\ ~cur.scored
    /\ Len(cur.fitted) = Len(searches[s].steps)
    /\ \E d \in [cur.split.test -> levels] :
         LET test   == cur.split.test
             after  == [j \in 1 .. Len(cur.fitted) |->
                          Transformed(cur.fitted[j], test)]
         IN  IF SingleClass(test)
               THEN /\ error' = [type |-> "UndefinedScore",
                                 at |-> "roc_auc"]
                    /\ pc' = "error"
                    /\ cur' = [cur EXCEPT !.fitted = after]
                    /\ UNCHANGED <<out, ci, fi>>
               ELSE /\ out' = Append(out, [score |-> RocAuc(test, d),
                                           n_test |-> Cardinality(test),
                                           ci |-> ci])
                    /\ cur' = [cur EXCEPT !.fitted = after,
                                          !.scored = TRUE]
                    /\ Advance
                    /\ error' = error
    /\ UNCHANGED <<n, Y, n_folds, levels, searches, kfolds, yielded, s,
                   configs, grid_scores, best, refSplits, results>>

\* Pipeline.fit on the given rows, every stage in turn
RECURSIVE FitAll(_, _, _, _, _)
FitAll(search, params, rows, k, n_in) ==
    IF k > Len(search.steps) THEN <<>>
    ELSE LET stage == StageAt(search.steps, k)
             n_out == StageOutputs(search, stage, params, n_in)
         IN  <<FittedStage(stage, rows, n_in, n_out, k)>>
             \o FitAll(search, params, rows, k + 1, n_out)

\* the end of GridSearchCV.fit: grid_scores_, best_params_, best_score_,
\* and (refit=True) best_estimator_ fitted on the whole data set
Select ==
    /\ pc = "select"
    /\ LET gs == GridScores(out, configs, SearchCV(s).n_folds)
           b  == BestOf(gs)
       IN  /\ grid_scores' = Append(grid_scores, gs)
           /\ \E raises \in BOOLEAN :
                IF raises \/ SingleClass(0 .. n - 1)
                  THEN /\ best' = Append(best,
                                    [params |-> b.parameters,
                                     score |-> b.mean_validation_score,
                                     estimator |-> <<>>])
                       /\ error' = [type |-> "FitFailure", at |-> "refit"]
                       /\ pc' = "error"
                       /\ s' = s
                  ELSE /\ best' = Append(best,
                                    [params |-> b.parameters,
                                     score |-> b.mean_validation_score,
                                     estimator |->
                                       FitAll(searches[s], b.parameters,
                                              0 .. n - 1, 1, NumFeatures)])
                       /\ error' = error
                       /\ IF s < Len(searches)
                            THEN s' = s + 1 /\ pc' = "construct"
                            ELSE s' = s /\ pc' = "plot"
    /\ cur' = NoEstimator
    /\ UNCHANGED <<n, Y, n_folds, levels, searches, kfolds, yielded,
                   configs, ci, fi, out, refSplits, results>>

\* the last cell: results = np.array([best_1, best_2, best_3])
Plot ==
    /\ pc = "plot"
    /\ results' = [i \in 1 .. Len(best) |-> best[i].score]
    /\ pc' = "done"
    /\ UNCHANGED <<n, Y, n_folds, levels, searches, kfolds, yielded, s,
                   configs, ci, fi, cur, out, grid_scores, best, refSplits,
                   error>>

-----------------------------------------------------------------------------
(* The notebook run: the data set is any labelled table of up to MaxN      *)
(* rows; the classifier gives every row the same decision value            *)

Init ==
    /\ n \in 1 .. MaxN
    /\ n_folds = NFolds
    /\ Y \in [0 .. n - 1 -> {0, 1}]
    /\ levels = {0}
    /\ searches = <<lr_grid_search, lr_grid_search_scaler,
                    lr_grid_search_poly>>
    /\ pc = "kfold"
    /\ kfolds = NoKFold
    /\ yielded = <<>>
    /\ s = 1
    /\ configs = <<>>
    /\ ci = 1
    /\ fi = 0
    /\ cur = NoEstimator
    /\ out = <<>>
    /\ grid_scores = <<>>
    /\ best = <<>>
    /\ refSplits = <<>>
    /\ results = <<>>
    /\ error = NoError

Next ==
    \/ BuildKFold
    \/ GridSearchConstruct
    \/ StartEval
    \/ FitStage
    \/ ScoreFold
    \/ Select
    \/ Plot

Spec == Init /\ [][Next]_vars

-----------------------------------------------------------------------------
(* The scoring runs: one grid search over a small grid, with a classifier  *)
(* free to rank the validation rows in any way                             *)

\* the label columns of the scoring runs: the two alternating columns
\* (every fold of two or more rows holds both classes) and the constant one
LabelColumns(nn) ==
    { [r \in 0 .. nn - 1 |-> (r + ph) % 2] : ph \in {0, 1} }
    \cup { [r \in 0 .. nn - 1 |-> 0] }

ScoreGrids ==
    { <<>> } \cup
    { << [name |-> "C", values |-> SubSeq(CValues, 1, c)] >> :
        c \in 0 .. MaxGridC }

InitScore ==
    /\ n \in 2 .. MaxScoreN
    /\ n_folds \in 1 .. MaxScoreFolds
    /\ Y \in LabelColumns(n)
    /\ levels = 0 .. MaxLevel
    /\ \E g \in ScoreGrids :
         searches = << [name |-> "LR", pipeline |-> FALSE,
                        steps |-> steps_lr, param_grid |-> g] >>
    /\ pc = "kfold"
    /\ kfolds = NoKFold
    /\ yielded = <<>>
    /\ s = 1
    /\ configs = <<>>
    /\ ci = 1
    /\ fi = 0
    /\ cur = NoEstimator
    /\ out = <<>>
    /\ grid_scores = <<>>
    /\ best = <<>>
    /\ refSplits = <<>>
    /\ results = <<>>
    /\ error = NoError

\* a scoring run is cell 2 and one grid search; nothing is plotted
NextScore ==
    \/ BuildKFold
    \/ GridSearchConstruct
    \/ StartEval
    \/ FitStage
    \/ ScoreFold
    \/ Select

SpecScore == InitScore /\ [][NextScore]_vars

-----------------------------------------------------------------------------
(* The partitioner runs: KFold(n, n_folds) for every small n and n_folds,  *)
(* iterated directly                                                       *)

InitFold ==
    /\ n \in 1 .. MaxFoldN
    /\ n_folds \in 0 .. MaxFoldN + 1
    /\ Y = [r \in 0 .. n - 1 |-> 0]
    /\ levels = {0}
    /\ searches = <<>>
    /\ pc = "kfold"
    /\ kfolds = NoKFold
    /\ yielded = <<>>
    /\ s = 1
    /\ configs = <<>>
    /\ ci = 1
    /\ fi = 0
    /\ cur = NoEstimator
    /\ out = <<>>
    /\ grid_scores = <<>>
    /\ best = <<>>
    /\ refSplits = <<>>
    /\ results = <<>>
    /\ error = NoError

NextFold == BuildKFold \/ NextSplit \/ Restart

SpecFold == InitFold /\ [][NextFold]_vars

-----------------------------------------------------------------------------
(* Properties *)

AllRowIndices == 0 .. n - 1

\* C1: for 2 <= K <= N, iterating KFold(N, K) yields exactly K validation
\* groups, each non-empty, pairwise disjoint, together covering 0..N-1, and
\* the training indices of every fold are the indices outside its group.
KFoldPartitions ==
    kfolds.built =>
      /\ Len(yielded) <= n_folds
      /\ \A i \in 1 .. Len(yielded) :
           /\ yielded[i].test # {}
           /\ yielded[i].test \subseteq AllRowIndices
           /\ yielded[i].train = AllRowIndices \ yielded[i].test
      /\ \A i, j \in 1 .. Len(yielded) :
           i < j => yielded[i].test \cap yielded[j].test = {}
      /\ Len(yielded) = n_folds =>
           UNION {yielded[i].test : i \in 1 .. Len(yielded)} = AllRowIndices

\* a full iteration over folds of unequal sizes
KFoldPartitionsWitness ==
    /\ kfolds.built
    /\ Len(yielded) = n_folds
    /\ n_folds >= 3
    /\ n % n_folds # 0

\* C2: the partition is built once and every candidate of every grid search
\* is fitted and scored on the same splits: the split an evaluation uses for
\* fold i is the split the very first candidate used for fold i, and the
\* KFold object is never rebuilt.
SameSplitsForAll ==
    /\ Len(refSplits) <= NFolds
    /\ kfolds.built => kfolds = [built |-> TRUE, n |-> n, n_folds |-> NFolds]
    /\ cur.active =>
         /\ cur.fold < Len(refSplits)
         /\ cur.split = refSplits[cur.fold + 1]

\* the last fold of the last candidate of the polynomial search
SameSplitsForAllWitness ==
    /\ cur.active
    /\ cur.search = 3
    /\ cur.cand = 48
    /\ cur.fold = NFolds - 1

\* C3: the best candidate has the maximal mean score, it is the first such
\* candidate in enumeration order, and best_score_ is its mean score.
BestIsFirstMaximum ==
    \A si \in 1 .. Len(best) :
      LET gs == grid_scores[si]
      IN  \E i \in 1 .. Len(gs) :
            /\ gs[i].parameters = best[si].params
            /\ gs[i].mean_validation_score = best[si].score
            /\ \A j \in 1 .. Len(gs) :
                 ~RLess(gs[i].mean_validation_score,
                        gs[j].mean_validation_score)
            /\ \A j \in 1 .. i - 1 :
                 RLess(gs[j].mean_validation_score,
                       gs[i].mean_validation_score)

\* two candidates tie for the best mean score, above one half, and the
\* first of them is chosen
BestIsFirstMaximumWitness ==
    /\ Len(best) = 1
    /\ Len(grid_scores[1]) = 2
    /\ grid_scores[1][1].mean_validation_score
         = grid_scores[1][2].mean_validation_score
    /\ RLess(Rat(1, 2), best[1].score)
    /\ best[1].params = grid_scores[1][1].parameters

MeanIsPlainMean ==
    \A si \in 1 .. Len(grid_scores) :
      \A c \in 1 .. Len(grid_scores[si]) :
        LET e == grid_scores[si][c]
            f == e.cv_validation_scores
            B == ProdSeq([i \in 1 .. Len(f) |-> f[i].den])
        IN  /\ \A i \in 1 .. Len(f) : 0 <= f[i].num /\ f[i].num <= f[i].den
            /\ e.mean_validation_score.num * Len(f) * B
                 = e.mean_validation_score.den
                   * SumSeq([i \in 1 .. Len(f) |->
                               f[i].num * (B \div f[i].den)])

\* C5 as amended: the mean score of a candidate is the mean of its fold
\* scores weighted by the number of validation rows of each fold (the sum
\* of n_i * score_i over the sum of n_i), and every fold score is in [0, 1].
MeanIsWeightedByFoldSize ==
    \A si \in 1 .. Len(grid_scores) :
      \A c \in 1 .. Len(grid_scores[si]) :
        LET e == grid_scores[si][c]
            f == e.cv_validation_scores
            w == [i \in 1 .. Len(f) |->
                    Cardinality(TestIndices(n, n_folds, i - 1))]
            B == ProdSeq([i \in 1 .. Len(f) |-> f[i].den])
        IN  /\ Len(f) = n_folds
            /\ \A i \in 1 .. Len(f) : 0 <= f[i].num /\ f[i].num <= f[i].den
            /\ e.mean_validation_score.num * SumSeq(w) * B
                 = e.mean_validation_score.den
                   * SumSeq([i \in 1 .. Len(f) |->
                               w[i] * f[i].num * (B \div f[i].den)])

\* a finished search whose folds differ in size and in score
MeanIsWeightedByFoldSizeWitness ==
    /\ Len(grid_scores) = 1
    /\ n % n_folds # 0
    /\ grid_scores[1][1].cv_validation_scores[1]
         # grid_scores[1][1].cv_validation_scores[2]

\* C6: in every evaluation, every fitted stage was fitted on exactly the
\* training rows of the fold (the rows outside its validation group), also
\* after the validation rows have been transformed and scored.
NoValidationLeak ==
    cur.active =>
      \A k \in 1 .. Len(cur.fitted) :
        /\ cur.fitted[k].seen \cap cur.split.test = {}
        /\ cur.fitted[k].seen = AllRowIndices \ cur.split.test

\* a scored evaluation of the three-stage pipeline
NoValidationLeakWitness ==
    /\ cur.active
    /\ cur.scored
    /\ cur.search = 3
    /\ Len(cur.fitted) = 3
    /\ cur.split.test # {}

\* C7: KFold with n_folds < 2 or n_folds > n fails with
\* InvalidConfiguration: no object is built and no split is produced; an
\* object that is built keeps the requested fold count.
KFoldRejectsBadFoldCount ==
    /\ (pc # "kfold" /\ (n_folds < 2 \/ n_folds > n)) =>
         /\ error = [type |-> "InvalidConfiguration", at |-> "KFold"]
         /\ pc = "error"
         /\ ~kfolds.built
         /\ yielded = <<>>
    /\ kfolds.built =>
         /\ kfolds.n_folds = n_folds
         /\ 2 <= n_folds /\ n_folds <= n

\* a fold count one above the number of rows has been rejected
KFoldRejectsBadFoldCountWitness ==
    /\ error.type = "InvalidConfiguration"
    /\ n_folds = n + 1
    /\ n_folds >= 2

NoResultOfCurrentSearch ==
    /\ pc = "error"
    /\ Len(best) = s - 1
    /\ Len(grid_scores) = s - 1
    /\ results = <<>>

\* C8: when a stage raises during the fit of an evaluation, the search
\* ends at once with FitFailure: the evaluation is not recorded or skipped,
\* the search has no grid scores, best parameters or best score, and no
\* further step is taken.
FitFailureAborts ==
    /\ [](cur.raised =>
            /\ error.type = "FitFailure"
            /\ error.at = searches[s].steps[Len(cur.fitted) + 1].name
            /\ NoResultOfCurrentSearch
            /\ cur.search = s /\ cur.cand = ci /\ cur.fold = fi
            /\ Len(out) = (ci - 1) * NFolds + fi)
    /\ [][error.type # "FitFailure"]_vars

\* the scaler of the polynomial pipeline raised after earlier candidates
\* and earlier searches had succeeded
FitFailureAbortsWitness ==
    /\ cur.raised
    /\ error = [type |-> "FitFailure", at |-> "scaler"]
    /\ s = 3
    /\ ci > 1
    /\ Len(best) = 2

GridHasEmptyList(g) == \E i \in 1 .. Len(g) : Len(g[i].values) = 0

SearchConstructed == kfolds.built /\ pc # "construct"

\* C9 as stated: a grid with no hyper-parameter, or with an empty
\* candidate list, fails with InvalidConfiguration before any fit.
EmptyGridRejected ==
    (SearchConstructed
       /\ (searches[1].param_grid = <<>>
             \/ GridHasEmptyList(searches[1].param_grid))) =>
      /\ error = [type |-> "InvalidConfiguration", at |-> "GridSearchCV"]
      /\ ~cur.active
      /\ out = <<>>

\* C9 as amended: a grid with an empty candidate list fails with
\* InvalidConfiguration when the search is constructed, before any fit; a
\* grid with no hyper-parameter is not an error: its single candidate, the
\* estimator with its default parameters, is evaluated on every fold.
EmptyListRejectedEmptyGridDefault ==
    /\ (SearchConstructed /\ GridHasEmptyList(searches[1].param_grid)) =>
         /\ error = [type |-> "InvalidConfiguration", at |-> "GridSearchCV"]
         /\ pc = "error"
         /\ ~cur.active
         /\ configs = <<>> /\ out = <<>> /\ best = <<>>
    /\ (SearchConstructed /\ searches[1].param_grid = <<>>) =>
         /\ error.type # "InvalidConfiguration"
         /\ Len(configs) = 1
         /\ DOMAIN configs[1] = {}
         /\ \A i \in 1 .. Len(best) : DOMAIN best[i].params = {}
         /\ pc \in {"select", "plot"} => Len(out) = n_folds

\* the default candidate of a grid with no hyper-parameter was evaluated
\* and returned as the best
EmptyListRejectedEmptyGridDefaultWitness ==
    /\ searches[1].param_grid = <<>>
    /\ Len(best) = 1
    /\ DOMAIN best[1].params = {}
    /\ Len(out) = n_folds

\* C10: the stages of a pipeline are fitted in construction order, each on
\* the columns produced by the stage before it, the classifier last; the
\* stage lists of the searches stay (lr), (scaler, lr) and (polyfeat,
\* scaler, lr).
StagesFittedInOrder ==
    /\ [i \in 1 .. 1 |-> searches[1].steps[i].name] = <<"lr">>
    /\ [i \in 1 .. 2 |-> searches[2].steps[i].name] = <<"scaler", "lr">>
    /\ [i \in 1 .. 3 |-> searches[3].steps[i].name]
         = <<"polyfeat", "scaler", "lr">>
    /\ cur.active =>
         LET st == searches[cur.search].steps
         IN  /\ Len(cur.fitted) <= Len(st)
             /\ \A k \in 1 .. Len(cur.fitted) :
                  /\ cur.fitted[k].name = st[k].name
                  /\ cur.fitted[k].order = k
                  /\ cur.fitted[k].n_in =
                       IF k = 1 THEN NumFeatures
                                ELSE cur.fitted[k - 1].n_out
                  /\ cur.fitted[k].kind = "LogisticRegression"
                       <=> k = Len(st)
    /\ \A si \in 1 .. Len(best) :
         \A k \in 1 .. Len(best[si].estimator) :
           best[si].estimator[k].name = searches[si].steps[k].name

\* the classifier of the polynomial pipeline was fitted on the 28 columns
\* of a full degree-2 expansion, passed on by the scaler
StagesFittedInOrderWitness ==
    /\ cur.active
    /\ cur.search = 3
    /\ Len(cur.fitted) = 3
    /\ cur.fitted[1].n_out = 28
    /\ cur.fitted[3].n_in = 28

=============================================================================
